---- MODULE Spec2Model ----
(***************************************************************************)
(* Model of the vehicle surface-condition analysers of the repository:     *)
(*   analyze.py                (ONNX wrapper, analyze_image)               *)
(*   offline_analyzer.py       (heuristics, analyze_image_offline)         *)
(*   local_models_simulator.py (OpenCV detectors, analyze_image_local)     *)
(*   yolo_damage_detector.py   (YOLO + raw-feature fallback)               *)
(*                                                                         *)
(* One run of a process is one action: main_* takes the command line and   *)
(* the environment (file system, decoded image, primitive-extractor        *)
(* outputs) and leaves the printed object and the exit code.               *)
(*                                                                         *)
(* Numbers.  Confidences and cleanliness are rationals in [0,1]; they are  *)
(* kept as integers in units of 1/ONE, ONE = 60000, which makes every      *)
(* quotient of the source (area/10000, area/15000, area/20000, x*0.8,      *)
(* x*0.7, x*0.6, count/20, count/15, count/10, mean/200, std/100) exact.   *)
(* Pixel sizes are integers.  The primitive extractors of OpenCV/ONNX/YOLO *)
(* are inputs: the model draws their outputs (bounding rectangles, boxes,  *)
(* counts, logits) from small sets.                                        *)
(***************************************************************************)
EXTENDS Integers, Sequences, FiniteSets, TLC

VARIABLES pc, entry, env, output, exitCode, calls, raised, escaped, trace

vars == <<pc, entry, env, output, exitCode, calls, raised, escaped, trace>>

(***************************************************************************)
(* Arithmetic helpers                                                      *)
(***************************************************************************)
ONE == 6 * 10000

Min(a, b) == IF a <= b THEN a ELSE b

Max(a, b) == IF a >= b THEN a ELSE b

\* x * (num/den) for a scaled value x, as the source multiplies a float
Scale(x, num, den) == (x * num) \div den

RECURSIVE MaxOfSeq(_)
\* Python max(list): the largest element of a non-empty list
MaxOfSeq(s) == IF Len(s) = 1 THEN s[1] ELSE Max(s[1], MaxOfSeq(Tail(s)))

\* Python list slice s[:n]
Take(s, n) == SubSeq(s, 1, Min(n, Len(s)))

\* all sequences over S of length <= n
SeqsUpTo(S, n) == UNION {[1..k -> S] : k \in 0..n}

(***************************************************************************)
(* Strings that the code inspects character by character are sequences of  *)
(* one-character strings.                                                  *)
(***************************************************************************)
S_scratches == <<"s","c","r","a","t","c","h","e","s">>
S_dents     == <<"d","e","n","t","s">>
S_rust      == <<"r","u","s","t">>
S_dirt      == <<"d","i","r","t">>
S_cracks    == <<"c","r","a","c","k","s">>

S_scratch == <<"s","c","r","a","t","c","h">>
S_dent    == <<"d","e","n","t">>
S_crack   == <<"c","r","a","c","k">>

\* the five defect types under the plural keys of the reports
DefectKeys == {"rust", "cracks", "dirt", "scratches", "dents"}

\* the characters of a plural key
CharsOf(key) ==
    CASE key = "scratches" -> S_scratches
      [] key = "dents"     -> S_dents
      [] key = "rust"      -> S_rust
      [] key = "dirt"      -> S_dirt
      [] key = "cracks"    -> S_cracks

RECURSIVE RStrip(_, _)
\* Python str.rstrip(ch): drop every trailing occurrence of ch
RStrip(s, ch) ==
    IF Len(s) > 0 /\ s[Len(s)] = ch THEN RStrip(SubSeq(s, 1, Len(s) - 1), ch) ELSE s

(***************************************************************************)
(* Status labels.  The source prints Russian labels; they are named here   *)
(* by the ordinal they stand for.                                          *)
(*   "Плохое" = Poor, "Требует внимания" = NeedsAttention,                 *)
(*   "Удовлетворительное" = Satisfactory, "Хорошее" = Good                 *)
(***************************************************************************)
Poor           == "Poor"
NeedsAttention == "NeedsAttention"
Satisfactory   == "Satisfactory"
Good           == "Good"

\* number of true values of a function into BOOLEAN
CountTrue(f) == Cardinality({k \in DOMAIN f : f[k]})

\* outcome of a function of the program: the dict it returns or the exception
\* it raises, with the collaborators it invoked on the way
Returned(d, c) == [kind |-> "return", value |-> d, calls |-> c]
Raised(msg, c) == [kind |-> "raise", value |-> msg, calls |-> c]

ErrorObject(msg) == [error |-> msg]

NoOutput == [none |-> TRUE]

\* Python None, where a function returns a dict or None
None == [None |-> TRUE]

(***************************************************************************)
(* local_models_simulator.py                                               *)
(* A contour is the bounding rectangle [w, h] cv2.boundingRect gives it.   *)
(***************************************************************************)
MaxScratches == 5
MaxDents     == 3
MaxRustAreas == 4
MaxDirtAreas == 6

ScratchKeep(c) == c.w * c.h > 100 /\ (c.w > c.h * 2 \/ c.h > c.w * 2)

ScratchFinding(c) ==
    [width |-> c.w, height |-> c.h,
     confidence |-> Min((3 * ONE) \div 10 + c.w * c.h * (ONE \div 10000), (9 * ONE) \div 10),
     class |-> "scratch"]

\* the loop that appends a finding per accepted contour, then the slice
detect_scratches_opencv(contours) ==
    LET scratches[i \in 0..Len(contours)] ==
            IF i = 0 THEN <<>>
            ELSE IF ScratchKeep(contours[i])
                 THEN Append(scratches[i - 1], ScratchFinding(contours[i]))
                 ELSE scratches[i - 1]
    IN  Take(scratches[Len(contours)], MaxScratches)

\* 0.5 < w / h < 2.0 with h >= 1
DentKeep(c) ==
    /\ 1000 < c.w * c.h /\ c.w * c.h < 50000
    /\ c.h < 2 * c.w /\ c.w < 2 * c.h

DentFinding(c) ==
    [width |-> c.w, height |-> c.h,
     confidence |-> Min((3 * ONE) \div 10 + c.w * c.h * (ONE \div 20000), (85 * ONE) \div 100),
     class |-> "dent"]

\* the loop that appends a finding per accepted contour, then the slice
detect_dents_opencv(contours) ==
    LET dents[i \in 0..Len(contours)] ==
            IF i = 0 THEN <<>>
            ELSE IF DentKeep(contours[i])
                 THEN Append(dents[i - 1], DentFinding(contours[i]))
                 ELSE dents[i - 1]
    IN  Take(dents[Len(contours)], MaxDents)

RustKeep(c) == c.w * c.h > 2000

RustFinding(c) ==
    [width |-> c.w, height |-> c.h,
     confidence |-> Min((4 * ONE) \div 10 + c.w * c.h * (ONE \div 15000), (8 * ONE) \div 10),
     class |-> "rust"]

\* the loop that appends a finding per accepted contour, then the slice
detect_rust_opencv(contours) ==
    LET rust_areas[i \in 0..Len(contours)] ==
            IF i = 0 THEN <<>>
            ELSE IF RustKeep(contours[i])
                 THEN Append(rust_areas[i - 1], RustFinding(contours[i]))
                 ELSE rust_areas[i - 1]
    IN  Take(rust_areas[Len(contours)], MaxRustAreas)

DirtKeep(c) == 300 < c.w * c.h /\ c.w * c.h < 20000

\* DirtFinding without the base confidence 0.3
DirtFinding_NoBase(c) ==
    [width |-> c.w, height |-> c.h,
     confidence |-> Min(c.w * c.h * (ONE \div 10000), (7 * ONE) \div 10),
     class |-> "dirt"]

DirtFinding(c) ==
    [width |-> c.w, height |-> c.h,
     confidence |-> Min((3 * ONE) \div 10 + c.w * c.h * (ONE \div 10000), (7 * ONE) \div 10),
     class |-> "dirt"]

\* the loop that appends a finding per accepted contour, then the slice
detect_dirt_opencv(contours) ==
    LET dirt_areas[i \in 0..Len(contours)] ==
            IF i = 0 THEN <<>>
            ELSE IF DirtKeep(contours[i])
                 THEN Append(dirt_areas[i - 1], DirtFinding(contours[i]))
                 ELSE dirt_areas[i - 1]
    IN  Take(dirt_areas[Len(contours)], MaxDirtAreas)

\* severity rule of create_damage_detail
DetailSeverity(area, confidence) ==
    IF area > 10000 /\ confidence > (7 * ONE) \div 10 THEN "severe"
    ELSE IF area > 5000 /\ confidence > (5 * ONE) \div 10 THEN "moderate"
    ELSE "minor"

create_damage_detail(prediction, damage_type, model_name) ==
    [type        |-> damage_type,
     confidence  |-> prediction.confidence,
     width       |-> prediction.width,
     height      |-> prediction.height,
     area        |-> prediction.width * prediction.height,
     severity    |-> DetailSeverity(prediction.width * prediction.height,
                                    prediction.confidence),
     detected_by |-> model_name]

\* [create_damage_detail(p, damage_type, model_name) for p in predictions]
DetailsOf(predictions, damage_type, model_name) ==
    [i \in 1..Len(predictions) |->
        create_damage_detail(predictions[i], damage_type, model_name)]

\* MaxConfidence taking the confidence of the last prediction
MaxConfidence_Last(predictions) ==
    IF Len(predictions) = 0 THEN 0 ELSE predictions[Len(predictions)].confidence

\* max([p["confidence"] for p in predictions] + [0])
MaxConfidence(predictions) ==
    MaxOfSeq(Append([i \in 1..Len(predictions) |-> predictions[i].confidence], 0))

\* LocalFlags with >= in place of >
LocalFlags_Inclusive(confidence_scores) ==
    [rust      |-> confidence_scores.rust >= (6 * ONE) \div 10,
     cracks    |-> confidence_scores.cracks >= (6 * ONE) \div 10,
     dirt      |-> confidence_scores.dirt >= (4 * ONE) \div 10,
     scratches |-> confidence_scores.scratches >= (6 * ONE) \div 10,
     dents     |-> confidence_scores.dents >= (6 * ONE) \div 10]

\* has_rust, has_cracks, has_dirt, has_scratches, has_dents
LocalFlags(confidence_scores) ==
    [rust      |-> confidence_scores.rust > (6 * ONE) \div 10,
     cracks    |-> confidence_scores.cracks > (6 * ONE) \div 10,
     dirt      |-> confidence_scores.dirt > (4 * ONE) \div 10,
     scratches |-> confidence_scores.scratches > (6 * ONE) \div 10,
     dents     |-> confidence_scores.dents > (6 * ONE) \div 10]

\* LocalStatus with the first cutoff at two issues
LocalStatus_PoorAtTwo(issues, cleanliness_score) ==
    IF issues >= 2 THEN Poor
    ELSE IF issues >= 1 THEN NeedsAttention
    ELSE IF cleanliness_score < (7 * ONE) \div 10 THEN Satisfactory
    ELSE Good

\* the if/elif chain on len(issues) and cleanliness_score
LocalStatus(issues, cleanliness_score) ==
    IF issues >= 3 THEN Poor
    ELSE IF issues >= 1 THEN NeedsAttention
    ELSE IF cleanliness_score < (7 * ONE) \div 10 THEN Satisfactory
    ELSE Good

\* load_onnx_model: a session, or None when the file is missing or loading fails
load_onnx_model(onnx) == onnx \in {"ok", "inferfail"}

\* analyze_with_onnx: base metrics of the model, zeros when inference raises
analyze_with_onnx(onnx) ==
    IF onnx = "ok" THEN [has_damage |-> TRUE, confidence |-> ONE]
    ELSE [has_damage |-> FALSE, confidence |-> 0]

\* LocalCleanliness that also subtracts the confidence of the model
LocalCleanliness_WithOnnx(confidence_scores, onnx_result) ==
    Max(0, ONE - Max(confidence_scores.dirt, onnx_result.confidence))

\* cleanliness_score: 1.0 - dirt confidence; onnx_result is in scope and is
\* not read
LocalCleanliness(confidence_scores, onnx_result) ==
    ONE - (IF confidence_scores.dirt > 0 THEN confidence_scores.dirt ELSE 0)

\* the four detectors analyze_image_local calls, in the order of the calls
LocalDetectors ==
    <<"detect_scratches_opencv", "detect_dents_opencv", "detect_rust_opencv",
      "detect_dirt_opencv">>

\* position in LocalDetectors of the detector in which a primitive raises
RaisesAt(e) == CHOOSE i \in 1..4 : LocalDetectors[i] = e.raises

\* the collaborators analyze_image_local invokes, in execution order
LocalTrace(e) ==
    IF ~e.decodable THEN <<"cv2.imread">>
    ELSE IF e.raises # "none"
    THEN <<"cv2.imread", "load_onnx_model">> \o SubSeq(LocalDetectors, 1, RaisesAt(e))
    ELSE <<"cv2.imread", "load_onnx_model">> \o LocalDetectors
         \o (IF load_onnx_model(e.onnx) THEN <<"analyze_with_onnx">> ELSE <<>>)

analyze_image_local(e) ==
    IF ~e.decodable THEN Raised("could not load image", {"cv2.imread"})
    ELSE IF e.raises # "none"
    THEN Raised("error in a detector", {"cv2.imread", "load_onnx_model", "detectors"})
    ELSE
    LET onnx_session == load_onnx_model(e.onnx)
        scratches    == detect_scratches_opencv(e.image.scratch)
        dents        == detect_dents_opencv(e.image.dent)
        rust_areas   == detect_rust_opencv(e.image.rust)
        dirt_areas   == detect_dirt_opencv(e.image.dirt)
        onnx_result  == IF onnx_session THEN analyze_with_onnx(e.onnx)
                        ELSE [has_damage |-> FALSE, confidence |-> 0]
        confidence_scores ==
            [scratches |-> MaxConfidence(scratches),
             dents     |-> MaxConfidence(dents),
             rust      |-> MaxConfidence(rust_areas),
             dirt      |-> MaxConfidence(dirt_areas),
             cracks    |-> 0]
        damage_details ==
            DetailsOf(scratches, S_scratch, "OpenCV scratch detector")
            \o DetailsOf(dents, S_dent, "OpenCV dent detector")
            \o DetailsOf(rust_areas, S_rust, "OpenCV rust detector")
            \o DetailsOf(dirt_areas, S_dirt, "OpenCV dirt detector")
        cleanliness_score == LocalCleanliness(confidence_scores, onnx_result)
        flags  == LocalFlags(confidence_scores)
        status == LocalStatus(CountTrue(flags), cleanliness_score)
    IN  Returned(
          [rust        |-> flags.rust,
           cracks      |-> flags.cracks,
           dirt        |-> flags.dirt,
           scratches   |-> flags.scratches,
           dents       |-> flags.dents,
           cleanliness |-> cleanliness_score,
           status      |-> status,
           description |-> <<"recommendation", status>>,
           detection_counts |->
               [rust      |-> Len(rust_areas),
                cracks    |-> 0,
                scratches |-> Len(scratches),
                dents     |-> Len(dents),
                dirt      |-> Len(dirt_areas)],
           confidence_scores |-> confidence_scores,
           damage_details    |-> damage_details,
           method |-> <<"local_models",
                        IF onnx_session THEN "ONNX available" ELSE "ONNX unavailable">>],
          {"cv2.imread", "load_onnx_model", "detectors"}
            \cup (IF onnx_session THEN {"analyze_with_onnx"} ELSE {}))

(***************************************************************************)
(* Inputs of local_models_simulator.py                                     *)
(***************************************************************************)
\* longest contour list of each detector: one more than its cap
MaxScratchContours == 6
MaxDentContours    == 4
MaxRustContours    == 5
MaxDirtContours    == 7
\* longest list in which contours that a filter rejects are mixed in
MaxShort == 2

Rect(w, h) == [w |-> w, h |-> h]

\* per detector: a contour its filter rejects, a weak one, a strong one
RejectedScratch == Rect(10, 5)
WeakScratch     == Rect(100, 30)
StrongScratch   == Rect(300, 50)
RejectedDent    == Rect(100, 20)
WeakDent        == Rect(100, 60)
StrongDent      == Rect(150, 100)
RejectedRust    == Rect(40, 40)
WeakRust        == Rect(50, 45)
StrongRust      == Rect(120, 100)
RejectedDirt    == Rect(10, 10)
WeakDirt        == Rect(40, 25)
StrongDirt      == Rect(100, 60)

ScratchLists ==
    SeqsUpTo({WeakScratch, StrongScratch}, MaxScratchContours)
    \cup SeqsUpTo({RejectedScratch, WeakScratch, StrongScratch}, MaxShort)
DentLists ==
    SeqsUpTo({RejectedDent, WeakDent, StrongDent}, MaxDentContours)
RustLists ==
    SeqsUpTo({RejectedRust, WeakRust, StrongRust}, MaxRustContours)
DirtLists ==
    SeqsUpTo({WeakDirt, StrongDirt}, MaxDirtContours)
    \cup SeqsUpTo({RejectedDirt, WeakDirt, StrongDirt}, MaxShort)

OnnxStates == {"missing", "loadfail", "ok", "inferfail"}

EmptyImage == [scratch |-> <<>>, dent |-> <<>>, rust |-> <<>>, dirt |-> <<>>]

\* what the detectors that are not varied see: nothing, one strong rust
\* area, or one strong contour each
Backgrounds ==
    {EmptyImage,
     [EmptyImage EXCEPT !.rust = <<StrongRust>>],
     [scratch |-> <<StrongScratch>>, dent |-> <<StrongDent>>,
      rust |-> <<StrongRust>>, dirt |-> <<StrongDirt>>]}

\* the contour lists of one image: one detector sees any of its lists, the
\* others see a background
LocalImages ==
    {[b EXCEPT !.scratch = l] : b \in Backgrounds, l \in ScratchLists}
    \cup {[b EXCEPT !.dent = l] : b \in Backgrounds, l \in DentLists}
    \cup {[b EXCEPT !.rust = l] : b \in Backgrounds, l \in RustLists}
    \cup {[b EXCEPT !.dirt = l] : b \in Backgrounds, l \in DirtLists}

\* command line and environment of one run of local_models_simulator.py
LocalEnvs ==
    {[argc |-> a, exists |-> x, decodable |-> FALSE, image |-> EmptyImage,
      onnx |-> o, raises |-> "none"] :
        a \in 1..3, x \in BOOLEAN, o \in OnnxStates}
    \cup
    {[argc |-> 2, exists |-> TRUE, decodable |-> TRUE, image |-> i, onnx |-> o,
      raises |-> "none"] : i \in LocalImages, o \in OnnxStates}
    \cup
    {[argc |-> 2, exists |-> TRUE, decodable |-> TRUE, image |-> i, onnx |-> o,
      raises |-> LocalDetectors[r]] :
        i \in Backgrounds, o \in OnnxStates, r \in 1..4}

(***************************************************************************)
(* offline_analyzer.py                                                     *)
(* The features the OpenCV primitives extract from the image are inputs:   *)
(*   rust_bp        rust-mask pixels per 10000 pixels                      *)
(*   rust_areas     rust contours with area > 100                          *)
(*   long_lines     Hough segments longer than 30                          *)
(*   circles        Hough circles                                          *)
(*   irregular      dark contours with 100 < area < 2000                   *)
(*   brightness     mean of the L channel, 0..255                          *)
(*   std            standard deviation of the L channel                    *)
(*   dirty_pct      percent of dark, unsaturated pixels                    *)
(*   dirty_areas    dirty contours with area > 200                         *)
(*   cracks         elongated contours of the top-hat/black-hat image      *)
(***************************************************************************)
analyze_rust_heuristic(f) ==
    [detected   |-> f.rust_bp > 200,
     confidence |-> Min(f.rust_bp * 10 * (ONE \div 10000), ONE),
     area_count |-> f.rust_areas]

analyze_scratches_heuristic(f) ==
    [detected   |-> f.long_lines > 3,
     confidence |-> Min(f.long_lines * (ONE \div 20), ONE),
     area_count |-> Max(1, f.long_lines \div 5)]

analyze_dents_heuristic(f) ==
    LET total_dents == f.circles + (f.irregular \div 3)
    IN  [detected   |-> total_dents > 1,
         confidence |-> Min(total_dents * (ONE \div 10), ONE),
         area_count |-> total_dents]

\* BrightnessScore without the clip at 1.0
BrightnessScore_NoClip(f) == f.brightness * (ONE \div 200)

\* min(mean_brightness / 200.0, 1.0)
BrightnessScore(f) == Min(f.brightness * (ONE \div 200), ONE)

\* max(0, 1.0 - brightness_std / 100.0)
UniformityScore(f) == Max(0, ONE - f.std * (ONE \div 100))

\* brightness_score * 0.6 + uniformity_score * 0.4
CleanlinessScore(f) == (BrightnessScore(f) * 6 + UniformityScore(f) * 4) \div 10

analyze_dirt_heuristic(f) ==
    [detected          |-> f.dirty_pct > 15 \/ CleanlinessScore(f) < (4 * ONE) \div 10,
     confidence        |-> ONE - CleanlinessScore(f),
     cleanliness_score |-> CleanlinessScore(f),
     area_count        |-> f.dirty_areas]

analyze_cracks_heuristic(f) ==
    [detected   |-> f.cracks > 2,
     confidence |-> Min(f.cracks * (ONE \div 15), ONE),
     area_count |-> Max(1, f.cracks \div 3)]

\* the if/elif chain on len(issues) and result["cleanliness"]
OfflineStatus(issues, cleanliness) ==
    IF issues >= 3 THEN Poor
    ELSE IF issues >= 1 THEN NeedsAttention
    ELSE IF cleanliness < (7 * ONE) \div 10 THEN Satisfactory
    ELSE Good

\* the collaborators analyze_image_offline invokes, in execution order
OfflineTrace(e) ==
    IF ~e.decodable THEN <<"cv2.imread">>
    ELSE <<"cv2.imread", "analyze_rust_heuristic", "analyze_scratches_heuristic",
           "analyze_dents_heuristic", "analyze_dirt_heuristic",
           "analyze_cracks_heuristic">>

analyze_image_offline(e) ==
    IF ~e.decodable THEN Raised("could not load image", {"cv2.imread"})
    ELSE
    LET rust_result    == analyze_rust_heuristic(e.features)
        scratch_result == analyze_scratches_heuristic(e.features)
        dent_result    == analyze_dents_heuristic(e.features)
        dirt_result    == analyze_dirt_heuristic(e.features)
        crack_result   == analyze_cracks_heuristic(e.features)
        flags == [rust      |-> rust_result.detected,
                  cracks    |-> crack_result.detected,
                  dirt      |-> dirt_result.detected,
                  scratches |-> scratch_result.detected,
                  dents     |-> dent_result.detected]
        status == OfflineStatus(CountTrue(flags), dirt_result.cleanliness_score)
    IN  Returned(
          [rust        |-> flags.rust,
           cracks      |-> flags.cracks,
           dirt        |-> flags.dirt,
           scratches   |-> flags.scratches,
           dents       |-> flags.dents,
           cleanliness |-> dirt_result.cleanliness_score,
           detection_counts |->
               [rust      |-> rust_result.area_count,
                cracks    |-> crack_result.area_count,
                scratches |-> scratch_result.area_count,
                dents     |-> dent_result.area_count,
                dirt      |-> dirt_result.area_count],
           confidence_scores |->
               [rust      |-> rust_result.confidence,
                cracks    |-> crack_result.confidence,
                scratches |-> scratch_result.confidence,
                dents     |-> dent_result.confidence,
                dirt      |-> dirt_result.confidence],
           status      |-> status,
           description |-> <<"recommendation", status>>],
          {"cv2.imread", "detectors"})

(***************************************************************************)
(* Inputs of offline_analyzer.py                                           *)
(***************************************************************************)
RustFeatures ==
    {[rust_bp |-> 0, rust_areas |-> 0], [rust_bp |-> 200, rust_areas |-> 1],
     [rust_bp |-> 1500, rust_areas |-> 3]}

LineFeatures == {0, 3, 4, 25}

DentFeatures ==
    {[circles |-> 0, irregular |-> 0], [circles |-> 0, irregular |-> 5],
     [circles |-> 12, irregular |-> 3]}

\* brightness statistics of an 8-bit channel: std^2 <= mean * (255 - mean),
\* and pixels darker than mean - std exist only when std > 0
DirtFeatures ==
    {d \in [brightness : {0, 100, 200, 255}, std : {0, 50, 120},
            dirty_pct : {0, 20}, dirty_areas : {0, 2}] :
        /\ d.std * d.std <= d.brightness * (255 - d.brightness)
        /\ d.dirty_pct > 0 => d.std > 0
        /\ d.dirty_areas > 0 => d.dirty_pct > 0}

CrackFeatures == {0, 2, 3, 20}

OfflineFeatures ==
    {[rust_bp |-> r.rust_bp, rust_areas |-> r.rust_areas, long_lines |-> l,
      circles |-> d.circles, irregular |-> d.irregular,
      brightness |-> t.brightness, std |-> t.std, dirty_pct |-> t.dirty_pct,
      dirty_areas |-> t.dirty_areas, cracks |-> c] :
        r \in RustFeatures, l \in LineFeatures, d \in DentFeatures,
        t \in DirtFeatures, c \in CrackFeatures}

NoFeatures ==
    [rust_bp |-> 0, rust_areas |-> 0, long_lines |-> 0, circles |-> 0,
     irregular |-> 0, brightness |-> 0, std |-> 0, dirty_pct |-> 0,
     dirty_areas |-> 0, cracks |-> 0]

\* command line and environment of one run of offline_analyzer.py
OfflineEnvs ==
    {[argc |-> a, exists |-> x, decodable |-> FALSE, features |-> NoFeatures] :
        a \in 1..3, x \in BOOLEAN}
    \cup
    {[argc |-> 2, exists |-> TRUE, decodable |-> TRUE, features |-> f] :
        f \in OfflineFeatures}

(***************************************************************************)
(* analyze.py                                                              *)
(* The two output vectors of the model are inputs.  A logit is drawn as    *)
(* the natural logarithm of a small positive integer k, so that exp is     *)
(* exact: exp(x - max) / sum = k / sum(k).  The vectors drawn have sums    *)
(* that divide ONE.                                                        *)
(***************************************************************************)
RECURSIVE SumSeq(_)
SumSeq(s) == IF s = <<>> THEN 0 ELSE s[1] + SumSeq(Tail(s))

\* softmax of the logits ln(k[1]), ..., ln(k[n])
softmax(k) == [i \in 1..Len(k) |-> (k[i] * ONE) \div SumSeq(k)]

\* np.argmax: the first index of the largest element
argmax(p) == CHOOSE i \in 1..Len(p) :
                /\ \A j \in 1..Len(p) : p[j] <= p[i]
                /\ \A j \in 1..(i - 1) : p[j] < p[i]

cleanliness_categories == <<"dirty", "moderate", "clean">>

damage_threshold == (3 * ONE) \div 10

\* the if/elif chain on len(issues) and result["cleanliness"]
OnnxStatus(issues, cleanliness) ==
    IF issues >= 3 THEN Poor
    ELSE IF issues >= 1 THEN NeedsAttention
    ELSE IF cleanliness < (7 * ONE) \div 10 THEN Satisfactory
    ELSE Good

\* the collaborators analyze_image invokes, in execution order
OnnxTrace(e) ==
    IF ~e.model_ok THEN <<"InferenceSession">>
    ELSE IF ~e.decodable THEN <<"InferenceSession", "Image.open">>
    ELSE <<"InferenceSession", "Image.open", "session.run">>

analyze_image(e) ==
    IF ~e.model_ok THEN Raised("cannot load model", {"InferenceSession"})
    ELSE IF ~e.decodable THEN Raised("cannot open image", {"InferenceSession", "Image.open"})
    ELSE
    LET cleanliness_probs == softmax(e.cleanliness_output)
        damage_probs      == softmax(e.damage_output)
        cleanliness_label == cleanliness_categories[argmax(cleanliness_probs)]
        flags == [rust   |-> damage_probs[1] > damage_threshold,
                  cracks |-> damage_probs[2] > damage_threshold,
                  dirt   |-> cleanliness_label = "dirty"]
        status == OnnxStatus(CountTrue(flags), cleanliness_probs[3])
    IN  Returned(
          [rust        |-> flags.rust,
           cracks      |-> flags.cracks,
           dirt        |-> flags.dirt,
           cleanliness |-> cleanliness_probs[3],
           cleanliness_label |-> cleanliness_label,
           damage_detected   |->
               {i \in 1..4 : damage_probs[i] > damage_threshold},
           status      |-> status,
           description |-> <<"recommendation", status>>],
          {"InferenceSession", "Image.open", "session.run"})

(***************************************************************************)
(* Inputs of analyze.py                                                    *)
(***************************************************************************)
CleanlinessOutputs ==
    {<<1, 1, 1>>, <<7, 2, 1>>, <<2, 5, 3>>, <<2, 2, 6>>, <<1, 2, 7>>, <<1, 1, 8>>}

DamageOutputs ==
    {<<1, 1, 1, 1>>, <<4, 4, 1, 1>>, <<3, 1, 3, 3>>, <<7, 1, 1, 1>>,
     <<1, 7, 1, 1>>, <<1, 1, 4, 4>>}

\* command line and environment of one run of analyze.py
OnnxEnvs ==
    {[argc |-> a, exists |-> x, model_ok |-> m, decodable |-> FALSE,
      cleanliness_output |-> <<1, 1, 1>>, damage_output |-> <<1, 1, 1, 1>>] :
        a \in 1..3, x \in BOOLEAN, m \in BOOLEAN}
    \cup
    {[argc |-> 2, exists |-> TRUE, model_ok |-> TRUE, decodable |-> TRUE,
      cleanliness_output |-> c, damage_output |-> d] :
        c \in CleanlinessOutputs, d \in DamageOutputs}

(***************************************************************************)
(* yolo_damage_detector.py                                                 *)
(* Class names are character sequences.  A detection is the dict           *)
(* detect_with_yolo builds from a box: class, class_id, confidence, width, *)
(* height and area = width * height.                                       *)
(***************************************************************************)
L_car      == <<"c","a","r">>
L_truck    == <<"t","r","u","c","k">>
L_bus      == <<"b","u","s">>
L_vehicle  == <<"v","e","h","i","c","l","e">>
K_scrape    == <<"s","c","r","a","p","e">>
K_damage    == <<"d","a","m","a","g","e">>
K_corrosion == <<"c","o","r","r","o","s","i","o","n">>
K_mud       == <<"m","u","d">>
K_stain     == <<"s","t","a","i","n">>
K_break     == <<"b","r","e","a","k">>
L_class_90 == <<"c","l","a","s","s","_","9","0">>
L_Car         == <<"C","a","r">>
L_person      == <<"p","e","r","s","o","n">>
L_rust_damage == <<"r","u","s","t","_","d","a","m","a","g","e">>

\* str.lower() on the letters that occur
LowerChar(c) ==
    CASE c = "C" -> "c" [] c = "D" -> "d" [] c = "R" -> "r" [] c = "S" -> "s"
      [] OTHER -> c

Lower(str) == [i \in 1..Len(str) |-> LowerChar(str[i])]

\* Python "sub in str"
Contains(str, sub) ==
    \E i \in 1..(Len(str) - Len(sub) + 1) : SubSeq(str, i, i + Len(sub) - 1) = sub

\* the if/elif chain on the keywords of the lower-cased class name: the key
\* of the damage type, or "none"
\* DamageTypeOf with the rust keywords tested before the dent keywords
DamageTypeOf_RustFirst(class_name) ==
    IF Contains(class_name, S_scratch) \/ Contains(class_name, K_scrape)
        THEN "scratches"
    ELSE IF Contains(class_name, S_rust) \/ Contains(class_name, K_corrosion)
        THEN "rust"
    ELSE IF Contains(class_name, S_dent) \/ Contains(class_name, K_damage)
        THEN "dents"
    ELSE IF \/ Contains(class_name, S_dirt) \/ Contains(class_name, K_mud)
            \/ Contains(class_name, K_stain)
        THEN "dirt"
    ELSE IF Contains(class_name, S_crack) \/ Contains(class_name, K_break)
        THEN "cracks"
    ELSE "none"

DamageTypeOf(class_name) ==
    IF Contains(class_name, S_scratch) \/ Contains(class_name, K_scrape)
        THEN "scratches"
    ELSE IF Contains(class_name, S_dent) \/ Contains(class_name, K_damage)
        THEN "dents"
    ELSE IF Contains(class_name, S_rust) \/ Contains(class_name, K_corrosion)
        THEN "rust"
    ELSE IF \/ Contains(class_name, S_dirt) \/ Contains(class_name, K_mud)
            \/ Contains(class_name, K_stain)
        THEN "dirt"
    ELSE IF Contains(class_name, S_crack) \/ Contains(class_name, K_break)
        THEN "cracks"
    ELSE "none"

\* class_name in ["car", "truck", "bus", "vehicle"]
IsVehicle(class_name) == class_name \in {L_car, L_truck, L_bus, L_vehicle}

\* "severe" if confidence > 0.8 else "moderate" if confidence > 0.5 else "minor"
YoloSeverity(confidence) ==
    IF confidence > (8 * ONE) \div 10 THEN "severe"
    ELSE IF confidence > (5 * ONE) \div 10 THEN "moderate"
    ELSE "minor"

\* the damage_detail dict of a label-matched detection
YoloDetail(detection, damage_type) ==
    [type        |-> RStrip(CharsOf(damage_type), "s"),
     confidence  |-> detection.confidence,
     width       |-> detection.width,
     height      |-> detection.height,
     area        |-> detection.area,
     severity    |-> YoloSeverity(detection.confidence),
     detected_by |-> "YOLOv8 detector"]

ZeroScores == [scratches |-> 0, dents |-> 0, rust |-> 0, dirt |-> 0, cracks |-> 0]

\* Bump that keeps the confidence of the last finding
Bump_Last(acc, key, confidence) ==
    [acc EXCEPT !.counts[key] = @ + 1,
                !.scores[key] = confidence]

\* counts[key] += 1; scores[key] = max(scores[key], confidence)
Bump(acc, key, confidence) ==
    [acc EXCEPT !.counts[key] = @ + 1,
                !.scores[key] = Max(@, confidence)]

\* first loop of analyze_damage_from_detections: vehicle boxes and
\* label-matched findings
LabelLoop(detections) ==
    LET F[i \in 0..Len(detections)] ==
            IF i = 0
            THEN [counts |-> ZeroScores, scores |-> ZeroScores,
                  details |-> <<>>, car_detected |-> FALSE]
            ELSE
            LET detection   == detections[i]
                class_name  == Lower(detection.class)
                prev        == [F[i - 1] EXCEPT !.car_detected =
                                   @ \/ IsVehicle(class_name)]
                damage_type == DamageTypeOf(class_name)
            IN  IF damage_type = "none" THEN prev
                ELSE [Bump(prev, damage_type, detection.confidence)
                        EXCEPT !.details =
                            Append(@, YoloDetail(detection, damage_type))]
    IN  F[Len(detections)]

\* one step of the reinterpretation loop on a detection with class_id > 80
\* and confidence > 0.4 and height # 0
Reclassify(acc, detection, total_area) ==
    IF detection.area * 100 < total_area /\ detection.width > 3 * detection.height
    THEN Bump(acc, "scratches", Scale(detection.confidence, 8, 10))
    ELSE IF /\ detection.area * 100 < 2 * total_area
            /\ detection.height < 2 * detection.width
            /\ detection.width < 2 * detection.height
    THEN Bump(acc, "dents", Scale(detection.confidence, 7, 10))
    ELSE IF detection.area * 100 < 5 * total_area
    THEN Bump(acc, "dirt", Scale(detection.confidence, 6, 10))
    ELSE acc

\* Reinterpreted with class_id >= 80 in place of > 80
Reinterpreted_Inclusive(detection) ==
    detection.class_id >= 80 /\ detection.confidence > (4 * ONE) \div 10

\* the detection reaches detection["width"] / detection["height"]
Reinterpreted(detection) ==
    detection.class_id > 80 /\ detection.confidence > (4 * ONE) \div 10

\* second loop of analyze_damage_from_detections; failed is set when the
\* division by a zero height raises ZeroDivisionError
ReclassifyLoop(start, detections, total_area) ==
    LET G[i \in 0..Len(detections)] ==
            IF i = 0 THEN [acc |-> start, failed |-> FALSE]
            ELSE IF G[i - 1].failed THEN G[i - 1]
            ELSE IF ~Reinterpreted(detections[i]) THEN G[i - 1]
            ELSE IF detections[i].height = 0 THEN [G[i - 1] EXCEPT !.failed = TRUE]
            ELSE [G[i - 1] EXCEPT !.acc = Reclassify(@, detections[i], total_area)]
    IN  G[Len(detections)]

\* damage_counts, confidence_scores, damage_details, or the exception
analyze_damage_from_detections(detections, image_shape) ==
    LET total_area == image_shape[1] * image_shape[2]
        labelled   == LabelLoop(detections)
        second     == ReclassifyLoop(labelled, detections, total_area)
    IN  IF labelled.car_detected
        THEN [failed |-> FALSE, counts |-> labelled.counts,
              scores |-> labelled.scores, details |-> labelled.details]
        ELSE [failed |-> second.failed, counts |-> second.acc.counts,
              scores |-> second.acc.scores, details |-> second.acc.details]

\* the dict of opencv_fallback_analysis, or None when imread fails
opencv_fallback_analysis(e) ==
    IF ~e.decodable THEN None
    ELSE
    LET damage_count == e.damage_count
    IN  [scratches   |-> damage_count > 20,
         dents       |-> damage_count > 10,
         rust        |-> FALSE,
         dirt        |-> damage_count > 30,
         cracks      |-> damage_count > 15,
         cleanliness |-> ONE - Min(damage_count * (ONE \div 50), (8 * ONE) \div 10),
         status      |-> IF damage_count > 15 THEN NeedsAttention ELSE Satisfactory,
         description |-> <<"opencv analysis", damage_count>>,
         detection_counts |->
             [scratches |-> Max(0, damage_count - 15),
              dents     |-> Max(0, damage_count - 20),
              rust      |-> 0,
              dirt      |-> Max(0, damage_count - 10),
              cracks    |-> Max(0, damage_count - 25)],
         confidence_scores |->
             [scratches |-> IF damage_count > 20 THEN (3 * ONE) \div 10 ELSE 0,
              dents     |-> IF damage_count > 10 THEN (3 * ONE) \div 10 ELSE 0,
              rust      |-> 0,
              dirt      |-> IF damage_count > 30 THEN (4 * ONE) \div 10 ELSE 0,
              cracks    |-> IF damage_count > 15 THEN (3 * ONE) \div 10 ELSE 0],
         damage_details |-> <<>>,
         method      |-> <<"opencv_fallback">>]

\* YOLO_MODELS in the order of the dict
YoloTiers == <<"nano", "small", "medium">>

\* first tier, in dict order, whose file exists; "none" when there is none
FirstExisting(files) ==
    IF \E i \in 1..3 : YoloTiers[i] \in files
    THEN YoloTiers[CHOOSE i \in 1..3 :
            /\ YoloTiers[i] \in files
            /\ \A j \in 1..(i - 1) : YoloTiers[j] \notin files]
    ELSE "none"

\* the tier whose file load_yolo_model loads, or "None"
load_yolo_model(e, model_size) ==
    IF ~e.yolo_available THEN "None"
    ELSE
    LET model_path == IF model_size \in e.files THEN model_size
                      ELSE FirstExisting(e.files)
    IN  IF model_path = "none" THEN "None"
        ELSE IF model_path \in e.corrupt THEN "None"
        ELSE model_path

\* the detections of the model, [] when the call raises
detect_with_yolo(e) == IF e.detect_fails THEN <<>> ELSE e.detections

\* the if/elif chain on total_issues
YoloStatus(total_issues) ==
    IF total_issues >= 3 THEN Poor
    ELSE IF total_issues >= 2 THEN NeedsAttention
    ELSE IF total_issues >= 1 THEN Satisfactory
    ELSE Good

\* the result dict of the try block, given the aggregation
YoloReport(model_size, detections, agg) ==
    LET flags == [scratches |-> FALSE, dents |-> FALSE, rust |-> FALSE,
                  dirt |-> agg.scores.dirt > (4 * ONE) \div 10,
                  cracks |-> FALSE]
        dirt_impact == Scale(agg.scores.dirt, 8, 10)
        status == YoloStatus(CountTrue(flags))
    IN  [scratches   |-> flags.scratches,
         dents       |-> flags.dents,
         rust        |-> flags.rust,
         dirt        |-> flags.dirt,
         cracks      |-> flags.cracks,
         cleanliness |-> Max(0, ONE - dirt_impact),
         status      |-> status,
         description |-> <<"yolo", status>>,
         detection_counts  |-> agg.counts,
         confidence_scores |-> agg.scores,
         damage_details    |-> agg.details,
         method      |-> <<"yolo", model_size, Len(detections)>>]

\* OrError that hands the result on without the test
OrError_Passthrough(result, msg) == result

\* OrError with the test inverted
OrError_Inverted(result, msg) == IF result # None THEN ErrorObject(msg) ELSE result

\* result if result else {"error": msg}
OrError(result, msg) == IF result = None THEN ErrorObject(msg) ELSE result

\* outcome of analyze_with_yolo: what it returns, what it invoked, and
\* whether its except handler ran
analyze_with_yolo(e, model_size) ==
    IF ~e.exists
    THEN [kind |-> "return", value |-> ErrorObject("image file not found"),
          calls |-> {}, raised |-> FALSE]
    ELSE IF ~e.yolo_available
    THEN [kind |-> "return",
          value |-> OrError(opencv_fallback_analysis(e), "could not analyse image"),
          calls |-> {"opencv_fallback_analysis"}, raised |-> FALSE]
    ELSE IF load_yolo_model(e, model_size) = "None"
    THEN [kind |-> "return",
          value |-> OrError(opencv_fallback_analysis(e), "could not load YOLO model"),
          calls |-> {"load_yolo_model", "opencv_fallback_analysis"},
          raised |-> FALSE]
    ELSE IF ~e.decodable
    THEN [kind |-> "return", value |-> ErrorObject("could not load image"),
          calls |-> {"load_yolo_model", "cv2.imread"}, raised |-> FALSE]
    ELSE
    LET detections == detect_with_yolo(e)
        agg == analyze_damage_from_detections(detections, e.image_shape)
    IN  IF agg.failed
        THEN [kind |-> "return",
              value |-> OrError(opencv_fallback_analysis(e), "float division by zero"),
              calls |-> {"load_yolo_model", "cv2.imread", "detect_with_yolo",
                         "opencv_fallback_analysis"},
              raised |-> TRUE]
        ELSE [kind |-> "return", value |-> YoloReport(model_size, detections, agg),
              calls |-> {"load_yolo_model", "cv2.imread", "detect_with_yolo"},
              raised |-> FALSE]

\* the collaborators analyze_with_yolo invokes, in execution order
YoloTrace(e, model_size) ==
    IF ~e.exists THEN <<>>
    ELSE IF ~e.yolo_available THEN <<"opencv_fallback_analysis">>
    ELSE IF load_yolo_model(e, model_size) = "None"
    THEN <<"load_yolo_model", "opencv_fallback_analysis">>
    ELSE IF ~e.decodable THEN <<"load_yolo_model", "cv2.imread">>
    ELSE <<"load_yolo_model", "cv2.imread", "detect_with_yolo",
           "analyze_damage_from_detections">>
         \o (IF analyze_damage_from_detections(detect_with_yolo(e),
                                                e.image_shape).failed
             THEN <<"opencv_fallback_analysis">> ELSE <<>>)

(***************************************************************************)
(* Inputs of yolo_damage_detector.py                                       *)
(***************************************************************************)
\* longest list of detections: one more than the smallest per-type cap
MaxDets == 4

Det(class, class_id, confidence, width, height) ==
    [class |-> class, class_id |-> class_id, confidence |-> confidence,
     width |-> width, height |-> height, area |-> width * height]

\* boxes of the detector (it is called with conf=0.5)
D_car     == Det(L_car, 2, (9 * ONE) \div 10, 150, 100)
D_scratch == Det(S_scratch, 80, (85 * ONE) \div 100, 40, 10)
D_dent    == Det(S_dent, 81, (6 * ONE) \div 10, 30, 30)
D_dirt    == Det(S_dirt, 84, (9 * ONE) \div 10, 50, 50)
D_mud     == Det(K_mud, 85, (5 * ONE) \div 10, 60, 60)
D_thin    == Det(L_class_90, 90, (5 * ONE) \div 10, 40, 10)
D_flat    == Det(L_class_90, 90, (5 * ONE) \div 10, 10, 0)

Boxes == {D_car, D_scratch, D_dent, D_dirt, D_mud, D_thin, D_flat}

\* boxes for the lists of at most MaxShort detections: a capitalised vehicle
\* label, a label with keywords of two types, a crack, a label without
\* keyword, and unnamed boxes on the limits of the reinterpretation rules
\* (the image has 300 * 400 = 120000 pixels)
D_Car         == Det(L_Car, 2, (9 * ONE) \div 10, 150, 100)
D_rust_damage == Det(L_rust_damage, 82, (7 * ONE) \div 10, 30, 20)
D_crack       == Det(S_crack, 83, (75 * ONE) \div 100, 40, 5)
D_person      == Det(L_person, 0, (9 * ONE) \div 10, 50, 120)
D_big         == Det(L_class_90, 90, (9 * ONE) \div 10, 200, 100)
D_aspect3     == Det(L_class_90, 90, (5 * ONE) \div 10, 30, 10)
D_ratio1      == Det(L_class_90, 90, (5 * ONE) \div 10, 80, 15)
D_ratio2      == Det(L_class_90, 90, (5 * ONE) \div 10, 60, 40)
D_ratio5      == Det(L_class_90, 90, (5 * ONE) \div 10, 100, 60)

ExtraBoxes ==
    {D_Car, D_rust_damage, D_crack, D_person, D_big, D_aspect3, D_ratio1,
     D_ratio2, D_ratio5}

\* contours with area > 100 that the fallback counts
DamageCounts == {0, 11, 16, 21, 31, 60}

TierSet == {"nano", "small", "medium"}

\* argv[2]: a tier or a name YOLO_MODELS does not know
ModelSizes == TierSet \cup {"large"}

DefaultYolo ==
    [argc |-> 2, exists |-> TRUE, decodable |-> TRUE, yolo_available |-> TRUE,
     files |-> {"small"}, corrupt |-> {}, model_size |-> "small",
     detections |-> <<>>, detect_fails |-> FALSE, damage_count |-> 0,
     image_shape |-> <<300, 400>>]

\* the inputs a run does not read are left at their defaults
YoloCanonical(e) ==
    LET loaded == load_yolo_model(e, e.model_size) # "None"
        runs   == loaded /\ e.decodable
        fails  == runs /\ ~e.detect_fails /\ e.detections = <<D_flat>>
    IN  /\ e.corrupt \subseteq e.files
        /\ ~e.yolo_available => (e.files = {} /\ e.model_size = "small")
        /\ e.detections # <<>> => runs
        /\ e.detect_fails => (runs /\ e.detections # <<>>)
        /\ e.damage_count # 0 => (e.decodable /\ (~loaded \/ fails))

\* command line and environment of one run of yolo_damage_detector.py
YoloEnvs ==
    {[DefaultYolo EXCEPT !.argc = a, !.exists = x] : a \in 1..3, x \in BOOLEAN}
    \cup
    {e \in [argc : {3}, exists : {TRUE}, decodable : BOOLEAN,
            yolo_available : BOOLEAN, files : SUBSET TierSet,
            corrupt : SUBSET TierSet, model_size : ModelSizes,
            detections : {<<>>, <<D_flat>>, <<D_dirt>>},
            detect_fails : BOOLEAN, damage_count : DamageCounts,
            image_shape : {<<300, 400>>}] : YoloCanonical(e)}
    \cup
    {[DefaultYolo EXCEPT !.detections = ds] : ds \in SeqsUpTo(Boxes, MaxDets)}
    \cup
    {[DefaultYolo EXCEPT !.detections = ds] :
        ds \in SeqsUpTo(Boxes \cup ExtraBoxes, MaxShort)}

(***************************************************************************)
(* The processes                                                           *)
(***************************************************************************)
Init ==
    /\ pc = "idle"
    /\ entry = "none"
    /\ env = [argc |-> 0]
    /\ output = NoOutput
    /\ exitCode = 0
    /\ calls = {}
    /\ raised = FALSE
    /\ escaped = FALSE
    /\ trace = <<>>

\* print(json.dumps(output)); the process ends with exit code code
Finish(name, e, out, code, c) ==
    /\ pc' = "done"
    /\ entry' = name
    /\ env' = e
    /\ output' = out
    /\ exitCode' = code
    /\ calls' = c

\* main of a script that takes exactly one argument and whose analysis is
\* the outcome r: the argument check, the path check, then try/except
MainOneArg(name, e, r, t) ==
    IF e.argc # 2
    THEN Finish(name, e, ErrorObject("image path required"), 1, {}) /\ trace' = <<>>
    ELSE IF ~e.exists
    THEN Finish(name, e, ErrorObject("image file not found"), 1, {}) /\ trace' = <<>>
    ELSE IF r.kind = "return"
    THEN Finish(name, e, r.value, 0, r.calls) /\ trace' = t
    ELSE Finish(name, e, ErrorObject(r.value), 1, r.calls) /\ trace' = t

\* local_models_simulator.py main
main_local ==
    /\ pc = "idle"
    /\ \E e \in LocalEnvs :
          MainOneArg("local_models_simulator", e, analyze_image_local(e),
                     LocalTrace(e))
    /\ UNCHANGED <<raised, escaped>>

\* offline_analyzer.py main
main_offline ==
    /\ pc = "idle"
    /\ \E e \in OfflineEnvs :
          MainOneArg("offline_analyzer", e, analyze_image_offline(e),
                     OfflineTrace(e))
    /\ UNCHANGED <<raised, escaped>>

\* analyze.py main
main_analyze ==
    /\ pc = "idle"
    /\ \E e \in OnnxEnvs : MainOneArg("analyze", e, analyze_image(e), OnnxTrace(e))
    /\ UNCHANGED <<raised, escaped>>

\* yolo_damage_detector.py main: the argument check, then try/except around
\* analyze_with_yolo; the result is printed and the process ends normally
RunYolo(e) ==
    IF e.argc < 2
    THEN /\ Finish("yolo_damage_detector", e, ErrorObject("image path required"), 1, {})
         /\ raised' = FALSE
         /\ escaped' = FALSE
         /\ trace' = <<>>
    ELSE
    LET model_size == IF e.argc > 2 THEN e.model_size ELSE "small"
        r == analyze_with_yolo(e, model_size)
    IN  IF r.kind = "return"
        THEN /\ Finish("yolo_damage_detector", e, r.value, 0, r.calls)
             /\ raised' = r.raised
             /\ escaped' = FALSE
             /\ trace' = YoloTrace(e, model_size)
        ELSE /\ Finish("yolo_damage_detector", e, ErrorObject(r.value), 1, r.calls)
             /\ raised' = r.raised
             /\ escaped' = TRUE
             /\ trace' = YoloTrace(e, model_size)

main_yolo ==
    /\ pc = "idle"
    /\ \E e \in YoloEnvs : RunYolo(e)

Next == main_analyze \/ main_offline \/ main_local \/ main_yolo

Spec == Init /\ [][Next]_vars

(***************************************************************************)
(* Vocabulary of the properties                                            *)
(***************************************************************************)
\* a run has ended and printed a report (not an error object)
IsReport == pc = "done" /\ "error" \notin DOMAIN output

\* number of defect flags of the printed report that are true
IssueCount == Cardinality({k \in DOMAIN output \cap DefectKeys : output[k]})

MaxOfSet(S) == CHOOSE m \in S : \A x \in S : x <= m

\* the canonical tag of the defect type with plural key k
CanonicalTag(k) ==
    CASE k = "scratches" -> S_scratch
      [] k = "dents"     -> S_dent
      [] k = "rust"      -> S_rust
      [] k = "dirt"      -> S_dirt
      [] k = "cracks"    -> S_crack

CanonicalTags == {CanonicalTag(k) : k \in DefectKeys}

\* confidences of the damage_details records of type tag
DetailConfidences(tag) ==
    {output.damage_details[i].confidence :
        i \in {j \in 1..Len(output.damage_details) :
                  output.damage_details[j].type = tag}}

FromLocal   == entry = "local_models_simulator"
FromOffline == entry = "offline_analyzer"
FromOnnx    == entry = "analyze"
FromYolo    == entry = "yolo_damage_detector"

\* the report comes from the try block of analyze_with_yolo
YoloBranchReport == IsReport /\ FromYolo /\ output.method[1] = "yolo"

\* the report comes from opencv_fallback_analysis
FallbackReport == IsReport /\ FromYolo /\ output.method[1] = "opencv_fallback"

\* the detections the YOLO branch aggregated
SeenDetections == IF env.detect_fails THEN <<>> ELSE env.detections

\* confidences of the detections whose label matches a keyword of type k
LabelMatched(k) ==
    {SeenDetections[i].confidence :
        i \in {j \in 1..Len(SeenDetections) :
                  DamageTypeOf(Lower(SeenDetections[j].class)) = k}}

VehicleSeen ==
    \E i \in 1..Len(SeenDetections) : IsVehicle(Lower(SeenDetections[i].class))

(***************************************************************************)
(* C1: in the reports of analyze_image_local, analyze_image_offline and    *)
(* analyze_image, with issue_count the number of true defect flags of the  *)
(* report: status is Poor iff issue_count >= 3, NeedsAttention iff         *)
(* issue_count is 1 or 2, Satisfactory iff issue_count = 0 and             *)
(* cleanliness < 0.7, Good iff issue_count = 0 and cleanliness >= 0.7.     *)
(***************************************************************************)
C1_StatusFollowsIssueCount ==
    (IsReport /\ (FromLocal \/ FromOffline \/ FromOnnx)) =>
        /\ (output.status = Poor) <=> (IssueCount >= 3)
        /\ (output.status = NeedsAttention) <=> (IssueCount \in {1, 2})
        /\ (output.status = Satisfactory) <=>
              (IssueCount = 0 /\ output.cleanliness < (7 * ONE) \div 10)
        /\ (output.status = Good) <=>
              (IssueCount = 0 /\ output.cleanliness >= (7 * ONE) \div 10)

\* a local report with two issues and a clean surface is NeedsAttention
C1_Witness ==
    /\ IsReport /\ FromLocal
    /\ IssueCount = 2
    /\ output.cleanliness >= (7 * ONE) \div 10
    /\ output.status = NeedsAttention

(***************************************************************************)
(* C2: the reported confidence of a type is the maximum confidence among   *)
(* the findings of that type, and 0.0 with a false flag when there is no   *)
(* finding of the type: for the findings analyze_image_local aggregates    *)
(* (all of them are listed in damage_details), and for the label-matched   *)
(* findings of analyze_damage_from_detections (the score of a type is      *)
(* never below a label-matched finding of it, equals their maximum when    *)
(* no box is reinterpreted, and is 0.0 when the type has no finding).      *)
(***************************************************************************)
C2_ConfidenceIsMaximum ==
    /\ (IsReport /\ FromLocal) =>
          \A k \in DefectKeys :
             /\ output.confidence_scores[k] =
                   MaxOfSet(DetailConfidences(CanonicalTag(k)) \cup {0})
             /\ DetailConfidences(CanonicalTag(k)) = {} =>
                   (output.confidence_scores[k] = 0 /\ ~output[k])
    /\ YoloBranchReport =>
          \A k \in DefectKeys :
             /\ output.confidence_scores[k] >= MaxOfSet(LabelMatched(k) \cup {0})
             /\ (VehicleSeen \/ \A i \in 1..Len(SeenDetections) :
                                   ~Reinterpreted(SeenDetections[i])) =>
                   output.confidence_scores[k] = MaxOfSet(LabelMatched(k) \cup {0})
             /\ (output.detection_counts[k] = 0) =>
                   (output.confidence_scores[k] = 0 /\ ~output[k])

\* a strong finding followed by a weaker one of the same type: the score is
\* the strong one's confidence
C2_Witness ==
    /\ IsReport /\ FromLocal
    /\ Len(output.damage_details) >= 2
    /\ output.damage_details[1].type = S_scratch
    /\ output.damage_details[2].type = S_scratch
    /\ output.damage_details[2].confidence < output.damage_details[1].confidence
    /\ output.confidence_scores.scratches = output.damage_details[1].confidence

(***************************************************************************)
(* C3: on an existing, decodable image, when ultralytics is not            *)
(* importable, no model can be loaded, or the YOLO branch raises,          *)
(* analyze_with_yolo returns the report of the raw-feature fallback        *)
(* (method opencv_fallback) and no exception escapes it.                   *)
(***************************************************************************)
C3_FallbackReport ==
    (/\ pc = "done" /\ FromYolo /\ env.argc >= 2
     /\ env.exists /\ env.decodable
     /\ \/ ~env.yolo_available
        \/ load_yolo_model(env, IF env.argc > 2 THEN env.model_size ELSE "small") = "None"
        \/ raised)
    => /\ ~escaped
       /\ "error" \notin DOMAIN output
       /\ output.method[1] = "opencv_fallback"
       /\ DefectKeys \subseteq DOMAIN output

\* the fallback entered from the exception handler
C3_Witness ==
    /\ pc = "done" /\ FromYolo /\ raised
    /\ env.exists /\ env.decodable
    /\ "error" \notin DOMAIN output
    /\ output.method[1] = "opencv_fallback"

(***************************************************************************)
(* C4: for every entry point, when the image path does not exist the       *)
(* process prints an object whose only key is error, ends with a non-zero  *)
(* exit code, and has loaded no model and invoked no detector.             *)
(***************************************************************************)
\* the command line names a path
PathGiven == IF FromYolo THEN env.argc >= 2 ELSE env.argc = 2

C4_MissingFileIsAnError ==
    (pc = "done" /\ PathGiven /\ ~env.exists) =>
        /\ DOMAIN output = {"error"}
        /\ exitCode # 0
        /\ calls = {}

(***************************************************************************)
(* C5: every output is a complete report or a complete error object: a     *)
(* result without error has all twelve report keys, a result with error    *)
(* has none of them.                                                       *)
(***************************************************************************)
ReportKeys ==
    {"rust", "cracks", "dirt", "scratches", "dents", "cleanliness", "status",
     "description", "detection_counts", "confidence_scores", "damage_details",
     "method"}

C5_CompleteReportOrError ==
    pc = "done" =>
        IF "error" \in DOMAIN output
        THEN DOMAIN output \cap ReportKeys = {}
        ELSE ReportKeys \subseteq DOMAIN output

(***************************************************************************)
(* C6: the type of every damage_details record, from any detector, is one  *)
(* of the five canonical tags scratch, dent, rust, dirt, crack.            *)
(***************************************************************************)
C6_TypeIsCanonical ==
    (IsReport /\ "damage_details" \in DOMAIN output) =>
        \A i \in 1..Len(output.damage_details) :
            output.damage_details[i].type \in CanonicalTags

(***************************************************************************)
(* C7: in every report of every path, cleanliness is in [0,1] and every    *)
(* entry of confidence_scores is in [0,1].                                 *)
(***************************************************************************)
C7_ScoresInUnitInterval ==
    IsReport =>
        /\ output.cleanliness \in 0..ONE
        /\ "confidence_scores" \in DOMAIN output =>
              \A k \in DOMAIN output.confidence_scores :
                 output.confidence_scores[k] \in 0..ONE

\* an offline report of an image brighter than the normalisation point
C7_Witness ==
    /\ IsReport /\ FromOffline
    /\ env.features.brightness > 200
    /\ output.cleanliness = ONE

(***************************************************************************)
(* C8: in analyze_image_local each flag is true iff the confidence of its  *)
(* type is strictly above the threshold of the type (0.6, and 0.4 for      *)
(* dirt); a confidence equal to the threshold gives a false flag; the      *)
(* status counts the types above their thresholds.                         *)
(***************************************************************************)
PresenceThreshold(k) == IF k = "dirt" THEN (4 * ONE) \div 10 ELSE (6 * ONE) \div 10

AboveThreshold ==
    {k \in DefectKeys : output.confidence_scores[k] > PresenceThreshold(k)}

C8_FlagIffAboveThreshold ==
    (IsReport /\ FromLocal) =>
        /\ \A k \in DefectKeys : output[k] <=> (k \in AboveThreshold)
        /\ (output.status = Poor) <=> (Cardinality(AboveThreshold) >= 3)
        /\ (output.status = NeedsAttention) <=> (Cardinality(AboveThreshold) \in {1, 2})

\* a confidence exactly at its threshold leaves the flag false, beside a
\* flagged type
C8_Witness ==
    /\ IsReport /\ FromLocal
    /\ \/ /\ output.confidence_scores.scratches = (6 * ONE) \div 10
          /\ ~output.scratches
       \/ /\ output.confidence_scores.dirt = (4 * ONE) \div 10
          /\ ~output.dirt
    /\ output.confidence_scores.rust > (6 * ONE) \div 10
    /\ output.rust

(***************************************************************************)
(* C9: in every damage_details record of every path, severity is severe    *)
(* iff area > 10000 and confidence > 0.7, otherwise moderate iff           *)
(* area > 5000 and confidence > 0.5, otherwise minor, with                 *)
(* area = width x height.                                                  *)
(***************************************************************************)
SeverityRule(d) ==
    LET area == d.width * d.height
    IN  /\ d.area = area
        /\ (d.severity = "severe") <=>
              (area > 10000 /\ d.confidence > (7 * ONE) \div 10)
        /\ (d.severity = "moderate") <=>
              /\ ~(area > 10000 /\ d.confidence > (7 * ONE) \div 10)
              /\ area > 5000 /\ d.confidence > (5 * ONE) \div 10
        /\ d.severity \in {"severe", "moderate", "minor"}

C9_SeverityByAreaAndConfidence ==
    (IsReport /\ "damage_details" \in DOMAIN output) =>
        \A i \in 1..Len(output.damage_details) :
            SeverityRule(output.damage_details[i])

(***************************************************************************)
(* C10: damage_details holds at most 5 scratch, 3 dent, 4 rust and 6 dirt  *)
(* records, in analyze_image_local and in the YOLO branch, and the records *)
(* kept are the first candidates in the detector's order.                  *)
(***************************************************************************)
DetailCap(tag) ==
    CASE tag = S_scratch -> 5
      [] tag = S_dent    -> 3
      [] tag = S_rust    -> 4
      [] tag = S_dirt    -> 6

\* the damage_details records of type tag, in the order of the list
DetailsOfType(tag) ==
    SelectSeq(output.damage_details, LAMBDA d : d.type = tag)

\* the records of type tag are, in order, the first candidates up to the cap
IsCappedPrefix(tag, candidates) ==
    LET kept == DetailsOfType(tag)
    IN  /\ Len(kept) = Min(Len(candidates), DetailCap(tag))
        /\ \A i \in 1..Len(kept) :
              /\ kept[i].width = candidates[i].w
              /\ kept[i].height = candidates[i].h

C10_DetailsCappedInOrder ==
    /\ (IsReport /\ "damage_details" \in DOMAIN output) =>
          \A tag \in {S_scratch, S_dent, S_rust, S_dirt} :
              Len(DetailsOfType(tag)) <= DetailCap(tag)
    /\ (IsReport /\ FromLocal) =>
          /\ IsCappedPrefix(S_scratch, SelectSeq(env.image.scratch, ScratchKeep))
          /\ IsCappedPrefix(S_dent, SelectSeq(env.image.dent, DentKeep))
          /\ IsCappedPrefix(S_rust, SelectSeq(env.image.rust, RustKeep))
          /\ IsCappedPrefix(S_dirt, SelectSeq(env.image.dirt, DirtKeep))

(***************************************************************************)
(* C11: the method field names the detector that produced the report: in   *)
(* the YOLO branch the size tier of yolo_<size> is the tier of the model   *)
(* file load_yolo_model loaded (also when it substituted another tier for  *)
(* the requested one), a report whose detection call failed is not tagged  *)
(* as a YOLO result with detections, and a report of the raw-feature path  *)
(* is tagged opencv_fallback.                                              *)
(***************************************************************************)
\* the tier main asks analyze_with_yolo for
RequestedSize == IF env.argc > 2 THEN env.model_size ELSE "small"

C11_MethodNamesDetector ==
    /\ YoloBranchReport =>
          /\ output.method[2] = load_yolo_model(env, RequestedSize)
          /\ env.detect_fails => output.method[3] = 0
    /\ (IsReport /\ FromYolo /\ "opencv_fallback_analysis" \in calls) =>
          output.method = <<"opencv_fallback">>
    /\ (IsReport /\ FromYolo /\ "opencv_fallback_analysis" \notin calls) =>
          output.method[1] = "yolo"

(***************************************************************************)
(* C12: an exception raised inside one detector is caught for that         *)
(* detector alone and counts as zero findings of it; the analysis still    *)
(* returns a report built from the other detectors.  In                    *)
(* analyze_image_local this holds for the four OpenCV detectors and for    *)
(* analyze_with_onnx, in analyze_with_yolo for detect_with_yolo.           *)
(***************************************************************************)
\* the run reached the detectors of analyze_image_local
LocalDetectorsRan ==
    pc = "done" /\ FromLocal /\ env.argc = 2 /\ env.exists /\ env.decodable

\* plural key of the type a detector of LocalDetectors reports
KeyOfDetector(name) ==
    CASE name = "detect_scratches_opencv" -> "scratches"
      [] name = "detect_dents_opencv"     -> "dents"
      [] name = "detect_rust_opencv"      -> "rust"
      [] name = "detect_dirt_opencv"      -> "dirt"

\* the run reached detect_with_yolo
YoloDetectorRan ==
    pc = "done" /\ FromYolo /\ "detect_with_yolo" \in calls

C12_DetectorFailureIsLocal ==
    /\ LocalDetectorsRan =>
          /\ IsReport
          /\ env.raises # "none" =>
                /\ output.detection_counts[KeyOfDetector(env.raises)] = 0
                /\ \A k \in {"scratches", "dents", "rust", "dirt"} \ {KeyOfDetector(env.raises)} :
                      output.detection_counts[k] > 0 <=>
                         \E i \in 1..Len(output.damage_details) :
                            output.damage_details[i].type = CanonicalTag(k)
    /\ (YoloDetectorRan /\ env.detect_fails) =>
          /\ IsReport
          /\ \A k \in DefectKeys : output.detection_counts[k] = 0
          /\ output.damage_details = <<>>

(***************************************************************************)
(* C13: when the path exists but the file does not decode as an image,     *)
(* every analysis path prints an error object and never a report:          *)
(* analyze_with_yolo in its three situations (ultralytics not importable,  *)
(* no model loadable, model loaded), and the mains of offline_analyzer and *)
(* local_models_simulator, which turn the exception into an error object   *)
(* with exit code 1.                                                       *)
(***************************************************************************)
C13_UndecodableIsAnError ==
    (pc = "done" /\ PathGiven /\ env.exists /\ ~env.decodable) =>
        /\ "error" \in DOMAIN output
        /\ DOMAIN output \cap ReportKeys = {}
        /\ (FromOffline \/ FromLocal) => exitCode = 1

\* the fallback of analyze_with_yolo could not read the image either
C13_Witness ==
    /\ pc = "done" /\ FromYolo /\ env.argc >= 2
    /\ env.exists /\ ~env.decodable
    /\ "opencv_fallback_analysis" \in calls
    /\ DOMAIN output = {"error"}

(***************************************************************************)
(* C14: in the report of the YOLO branch of analyze_with_yolo the status   *)
(* follows the ordered rule on the report's own flags and cleanliness:     *)
(* Poor if 3 or more flags are true, otherwise NeedsAttention if at least  *)
(* 1 flag is true, otherwise Satisfactory if cleanliness < 0.7, otherwise  *)
(* Good.                                                                   *)
(***************************************************************************)
C14_YoloStatusFollowsRule ==
    YoloBranchReport =>
        output.status =
            IF IssueCount >= 3 THEN Poor
            ELSE IF IssueCount >= 1 THEN NeedsAttention
            ELSE IF output.cleanliness < (7 * ONE) \div 10 THEN Satisfactory
            ELSE Good

(***************************************************************************)
(* C15: in the report of opencv_fallback_analysis, for every contour       *)
(* count, status is Poor iff 3 or more flags are true, NeedsAttention iff  *)
(* 1 or 2 are true, Satisfactory iff no flag is true and                   *)
(* cleanliness < 0.7, Good iff no flag is true and cleanliness >= 0.7; an  *)
(* image with no contour above the area cutoff gives all flags false,      *)
(* cleanliness > 0.9 and status Good.                                      *)
(***************************************************************************)
C15_FallbackStatusFollowsRule ==
    FallbackReport =>
        /\ (output.status = Poor) <=> (IssueCount >= 3)
        /\ (output.status = NeedsAttention) <=> (IssueCount \in {1, 2})
        /\ (output.status = Satisfactory) <=>
              (IssueCount = 0 /\ output.cleanliness < (7 * ONE) \div 10)
        /\ (output.status = Good) <=>
              (IssueCount = 0 /\ output.cleanliness >= (7 * ONE) \div 10)
        /\ env.damage_count = 0 =>
              /\ IssueCount = 0
              /\ output.cleanliness > (9 * ONE) \div 10
              /\ output.status = Good

(***************************************************************************)
(* C16: within one analysis the detectors execute in a fixed order, the    *)
(* model/object detector first and then the heuristic detectors in the     *)
(* order scratch, dent, rust, dirt, crack; the heuristic detectors run on  *)
(* every analysis whether or not the model/object detector is available;   *)
(* damage_details is ordered accordingly (scratch records, then dent,      *)
(* rust, dirt).  For analyze_image_local and for analyze_with_yolo.        *)
(***************************************************************************)
\* the collaborator name was invoked during the run
Ran(name) == \E i \in 1..Len(trace) : trace[i] = name

\* every invocation of a precedes every invocation of b
Before(a, b) ==
    \A i, j \in 1..Len(trace) : (trace[i] = a /\ trace[j] = b) => i < j

\* place of a record's type in the order scratch, dent, rust, dirt, crack
TypeRank(tag) ==
    CASE tag[1] = "s"                 -> 1
      [] tag[1] = "d" /\ tag[2] = "e" -> 2
      [] tag[1] = "r"                 -> 3
      [] tag[1] = "d" /\ tag[2] = "i" -> 4
      [] OTHER                        -> 5

DetailsInTypeOrder ==
    \A i, j \in 1..Len(output.damage_details) :
        i < j => TypeRank(output.damage_details[i].type)
                    <= TypeRank(output.damage_details[j].type)

C16_DetectorOrder ==
    /\ (IsReport /\ FromLocal) =>
          /\ \A i \in 1..4 : Ran(LocalDetectors[i])
          /\ \A i, j \in 1..4 : i < j => Before(LocalDetectors[i], LocalDetectors[j])
          /\ \A i \in 1..4 : Before("analyze_with_onnx", LocalDetectors[i])
          /\ DetailsInTypeOrder
    /\ (IsReport /\ FromYolo) =>
          /\ Ran("opencv_fallback_analysis")
          /\ Before("detect_with_yolo", "opencv_fallback_analysis")
          /\ DetailsInTypeOrder

(***************************************************************************)
(* C17: aggregation is commutative: for every list of detections and every *)
(* permutation of it analyze_damage_from_detections returns the same       *)
(* detection_counts and confidence_scores (for the same image shape); only *)
(* the order of damage_details may differ, and it is the input order of    *)
(* the label-matched detections.  Every permutation is a product of swaps  *)
(* of neighbours and every list up to the bound is an input, so the        *)
(* property is checked for each such swap of each list.                    *)
(***************************************************************************)
\* the identity on 1..n and the permutations that exchange i and i + 1
Swaps(n) ==
    {[k \in 1..n |-> IF k = i THEN Min(i + 1, n)
                     ELSE IF k = Min(i + 1, n) THEN i ELSE k] : i \in 1..n}

\* the run handed env.detections to analyze_damage_from_detections
Aggregated ==
    pc = "done" /\ FromYolo /\ "detect_with_yolo" \in calls /\ ~env.detect_fails

\* the list ds rearranged by the permutation p of its indices
Permuted(ds, p) == [i \in 1..Len(ds) |-> ds[p[i]]]

\* the detections of ds with a defect keyword in the label, in order
LabelMatchedSeq(ds) ==
    SelectSeq(ds, LAMBDA d : DamageTypeOf(Lower(d.class)) # "none")

\* the records of details describe the detections of ds, one by one
DetailsDescribe(details, ds) ==
    /\ Len(details) = Len(ds)
    /\ \A i \in 1..Len(ds) :
          /\ details[i].confidence = ds[i].confidence
          /\ details[i].width = ds[i].width
          /\ details[i].height = ds[i].height
          /\ details[i].type =
                RStrip(CharsOf(DamageTypeOf(Lower(ds[i].class))), "s")

C17_AggregationCommutes ==
    Aggregated =>
        /\ ~raised =>
              DetailsDescribe(output.damage_details, LabelMatchedSeq(env.detections))
        /\ \A p \in Swaps(Len(env.detections)) :
              LET permuted == Permuted(env.detections, p)
                  agg == analyze_damage_from_detections(permuted, env.image_shape)
              IN  /\ agg.failed = raised
                  /\ ~raised =>
                        /\ agg.counts = output.detection_counts
                        /\ agg.scores = output.confidence_scores
                        /\ DetailsDescribe(agg.details, LabelMatchedSeq(permuted))

\* a weak and a strong finding of one type, the strong one first
C17_Witness ==
    /\ Aggregated /\ ~raised
    /\ Len(env.detections) >= 2
    /\ DamageTypeOf(Lower(env.detections[1].class)) = "dirt"
    /\ DamageTypeOf(Lower(env.detections[2].class)) = "dirt"
    /\ env.detections[2].confidence < env.detections[1].confidence
    /\ output.confidence_scores.dirt = env.detections[1].confidence
    /\ output.detection_counts.dirt >= 2

(***************************************************************************)
(* C18: cleanliness and issue_count are independent enough that            *)
(* analyze_image_local produces both (a) a report with status              *)
(* NeedsAttention and cleanliness >= 0.7, for an image whose only contour  *)
(* is a large rust area, and (b) a report with status Satisfactory and no  *)
(* flag true (cleanliness < 0.7), for an image whose only contour is a     *)
(* dirt spot of area 1000.                                                 *)
(***************************************************************************)
C18_StatusAndCleanlinessIndependent ==
    (IsReport /\ FromLocal) =>
        /\ env.image = [EmptyImage EXCEPT !.rust = <<StrongRust>>] =>
              /\ output.status = NeedsAttention
              /\ output.cleanliness >= (7 * ONE) \div 10
        /\ env.image = [EmptyImage EXCEPT !.dirt = <<WeakDirt>>] =>
              /\ output.status = Satisfactory
              /\ IssueCount = 0
              /\ output.cleanliness < (7 * ONE) \div 10

\* the report (b): no issue, yet not clean
C18_Witness ==
    /\ IsReport /\ FromLocal
    /\ env.image = [EmptyImage EXCEPT !.dirt = <<WeakDirt>>]
    /\ output.status = Satisfactory
    /\ IssueCount = 0
    /\ output.cleanliness < (7 * ONE) \div 10

(***************************************************************************)
(* C19: in analyze_damage_from_detections a box whose lower-cased label is *)
(* car, truck, bus or vehicle sets the vehicle-present signal and produces *)
(* no finding; a box whose label contains a defect keyword produces        *)
(* exactly one finding, of the type of the first matching keyword group in *)
(* the order scratch/scrape, dent/damage, rust/corrosion, dirt/mud/stain,  *)
(* crack/break; a box whose label contains no keyword produces no          *)
(* label-matched finding.                                                  *)
(***************************************************************************)
KeywordGroups ==
    <<{S_scratch, K_scrape}, {S_dent, K_damage}, {S_rust, K_corrosion},
      {S_dirt, K_mud, K_stain}, {S_crack, K_break}>>

GroupKeys == <<"scratches", "dents", "rust", "dirt", "cracks">>

\* some keyword of group g occurs in the lower-cased label
GroupMatches(label, g) ==
    \E kw \in KeywordGroups[g] : Contains(Lower(label), kw)

\* the first group with a keyword in the label, 0 when there is none
FirstGroup(label) ==
    IF \E g \in 1..5 : GroupMatches(label, g)
    THEN CHOOSE g \in 1..5 :
            GroupMatches(label, g) /\ \A h \in 1..(g - 1) : ~GroupMatches(label, h)
    ELSE 0

\* the first group of each detection the YOLO branch saw
GroupOfBoxes ==
    [i \in 1..Len(SeenDetections) |-> FirstGroup(SeenDetections[i].class)]

C19_LabelMatching ==
    YoloBranchReport =>
        LET matched == SelectSeq(SeenDetections, LAMBDA d : FirstGroup(d.class) # 0)
        IN  /\ Len(output.damage_details) = Len(matched)
            /\ \A i \in 1..Len(matched) :
                  /\ output.damage_details[i].confidence = matched[i].confidence
                  /\ output.damage_details[i].width = matched[i].width
                  /\ output.damage_details[i].height = matched[i].height
                  /\ TypeRank(output.damage_details[i].type) = FirstGroup(matched[i].class)
            /\ \A i \in 1..Len(SeenDetections) :
                  IsVehicle(Lower(SeenDetections[i].class)) =>
                      FirstGroup(SeenDetections[i].class) = 0
            /\ VehicleSeen =>
                  LET group == GroupOfBoxes
                  IN  \A g \in 1..5 :
                         output.detection_counts[GroupKeys[g]] =
                            Cardinality({i \in DOMAIN group : group[i] = g})

\* beside a vehicle, a label with a rust and a dent keyword gives one dent
C19_Witness ==
    /\ YoloBranchReport /\ VehicleSeen
    /\ \E i \in 1..Len(SeenDetections) : SeenDetections[i].class = L_rust_damage
    /\ output.detection_counts.dents = 1
    /\ output.detection_counts.rust = 0
    /\ Len(output.damage_details) = 1

(***************************************************************************)
(* C20: the reinterpretation of analyze_damage_from_detections runs only   *)
(* when no vehicle box is in the list; it considers only boxes with        *)
(* class_id > 80 and confidence > 0.4 and classifies each by the first     *)
(* matching rule: area ratio < 0.01 and aspect ratio > 3 gives scratch     *)
(* with confidence x 0.8; area ratio < 0.02 and aspect ratio strictly      *)
(* between 0.5 and 2 gives dent with confidence x 0.7; area ratio < 0.05   *)
(* gives dirt with confidence x 0.6; otherwise the box is ignored.  With a *)
(* vehicle box, counts and confidences come from label matches alone.      *)
(***************************************************************************)
\* pixels of the image
TotalArea == env.image_shape[1] * env.image_shape[2]

\* the rule that applies to a box: 1 scratch, 2 dent, 4 dirt, 0 ignored
RuleOf(d) ==
    IF d.class_id <= 80 \/ d.confidence <= (4 * ONE) \div 10 THEN 0
    ELSE IF 100 * d.area < TotalArea /\ d.width > 3 * d.height THEN 1
    ELSE IF /\ 100 * d.area < 2 * TotalArea
            /\ 2 * d.width > d.height /\ d.width < 2 * d.height THEN 2
    ELSE IF 100 * d.area < 5 * TotalArea THEN 4
    ELSE 0

\* tenths of the confidence the rule keeps
Discount(g) == CASE g = 1 -> 8 [] g = 2 -> 7 [] g = 4 -> 6

\* the rule the reinterpretation applies to each detection the YOLO branch
\* saw: none when a vehicle is in the list
RuleOfBoxes ==
    [i \in 1..Len(SeenDetections) |->
        IF VehicleSeen THEN 0 ELSE RuleOf(SeenDetections[i])]

C20_Reinterpretation ==
    YoloBranchReport =>
        LET group == GroupOfBoxes
            rule  == RuleOfBoxes
        IN  \A g \in 1..5 :
               LET labelled      == {i \in DOMAIN group : group[i] = g}
                   reinterpreted == {i \in DOMAIN rule : rule[i] = g}
               IN  /\ output.detection_counts[GroupKeys[g]] =
                         Cardinality(labelled) + Cardinality(reinterpreted)
                   /\ output.confidence_scores[GroupKeys[g]] =
                         MaxOfSet({0}
                            \cup {SeenDetections[i].confidence : i \in labelled}
                            \cup {(SeenDetections[i].confidence * Discount(g)) \div 10 :
                                     i \in reinterpreted})

\* without a vehicle, an unnamed thin box counts as a scratch at 0.8 of its
\* confidence and an unnamed large box is ignored
C20_Witness ==
    /\ YoloBranchReport /\ ~VehicleSeen
    /\ SeenDetections = <<D_thin, D_big>>
    /\ output.detection_counts.scratches = 1
    /\ output.confidence_scores.scratches = (4 * ONE) \div 10
    /\ output.detection_counts.dirt = 0

(***************************************************************************)
(* C21: in analyze_damage_from_detections each box contributes to          *)
(* detection_counts at most once: only boxes without a defect keyword in   *)
(* the label are reinterpreted, so the sum of detection_counts over the    *)
(* five types never exceeds the number of detections.                      *)
(***************************************************************************)
\* sum of detection_counts over the five types
TotalCount ==
    output.detection_counts.scratches + output.detection_counts.dents
    + output.detection_counts.rust + output.detection_counts.dirt
    + output.detection_counts.cracks

C21_EachBoxCountedOnce ==
    YoloBranchReport =>
        /\ TotalCount <= Len(SeenDetections)
        /\ LET group == GroupOfBoxes
               rule  == RuleOfBoxes
           IN  \A i \in DOMAIN group : ~(group[i] # 0 /\ rule[i] # 0)

(***************************************************************************)
(* C22: load_yolo_model returns a usable model whenever ultralytics is     *)
(* importable and at least one of the tier files nano, small, medium       *)
(* exists and can be loaded: with the requested file missing it takes the  *)
(* first existing file in the order nano, small, medium; when loading the  *)
(* chosen file fails it goes on to the next tier; it returns None only     *)
(* when no tier can be loaded.                                             *)
(***************************************************************************)
\* the run of analyze_with_yolo reached load_yolo_model
LoadAttempted == pc = "done" /\ FromYolo /\ "load_yolo_model" \in calls

\* the tier files that exist and load
Loadable == env.files \ env.corrupt

\* place of a tier in YOLO_MODELS
TierIndex(t) == CHOOSE i \in 1..3 : YoloTiers[i] = t

C22_LoadsAnyLoadableTier ==
    LoadAttempted =>
        /\ Loadable # {} =>
              /\ "opencv_fallback_analysis" \notin calls \/ raised
              /\ load_yolo_model(env, RequestedSize) \in Loadable
        /\ Loadable = {} => load_yolo_model(env, RequestedSize) = "None"
        /\ (RequestedSize \notin env.files /\ Loadable # {}
              /\ load_yolo_model(env, RequestedSize) # "None") =>
              \A t \in env.files :
                  TierIndex(load_yolo_model(env, RequestedSize)) <= TierIndex(t)

(***************************************************************************)
(* C23: analyze_damage_from_detections does not raise for any list of      *)
(* detections whose boxes have width >= 0 and height >= 0, a box of height *)
(* 0 with class_id > 80 and confidence > 0.4 in an image without vehicle   *)
(* included; it returns counts, confidences and details.                   *)
(***************************************************************************)
C23_AggregationDoesNotRaise ==
    (Aggregated /\ \A i \in 1..Len(env.detections) :
                      env.detections[i].width >= 0 /\ env.detections[i].height >= 0)
    => /\ ~raised
       /\ YoloBranchReport
       /\ ~analyze_damage_from_detections(env.detections, env.image_shape).failed

(***************************************************************************)
(* C24: in analyze_image_local the ONNX model has no influence on the      *)
(* report: for the same image the reports with the model missing, present, *)
(* or failing at inference are identical in all flags, cleanliness,        *)
(* status, description, detection_counts, confidence_scores and            *)
(* damage_details, and differ only in method.                              *)
(***************************************************************************)
C24_OnnxHasNoInfluence ==
    (IsReport /\ FromLocal) =>
        \A o \in OnnxStates :
            LET other == analyze_image_local([env EXCEPT !.onnx = o])
            IN  /\ other.kind = "return"
                /\ \A k \in ReportKeys \ {"method"} : other.value[k] = output[k]
                /\ (load_onnx_model(o) # load_onnx_model(env.onnx)) =>
                      other.value.method # output.method

\* a report with findings, produced with the model present and answering
C24_Witness ==
    /\ IsReport /\ FromLocal
    /\ env.onnx = "ok"
    /\ "analyze_with_onnx" \in calls
    /\ output.method = <<"local_models", "ONNX available">>
    /\ output.damage_details # <<>>
    /\ output.status = Poor

(***************************************************************************)
(* C25: in every report detection_counts[t] is the number of findings of   *)
(* type t the path produced: 0 when no feature of type t was found (the    *)
(* scratches and cracks of the offline analyzer included), at least 1      *)
(* whenever the flag of t is true (the raw-feature fallback included), and *)
(* equal to the number of damage_details records of type t where           *)
(* damage_details is emitted (analyze_image_local and the YOLO branch,     *)
(* label-matched and reinterpreted boxes alike).                           *)
(***************************************************************************)
\* number of damage_details records of the type with plural key GroupKeys[g]
DetailCount(g) ==
    Cardinality({i \in 1..Len(output.damage_details) :
                    TypeRank(output.damage_details[i].type) = g})

C25_CountsAreFindingCounts ==
    (IsReport /\ ~FromOnnx) =>
        /\ \A k \in DefectKeys : output[k] => output.detection_counts[k] >= 1
        /\ FromOffline =>
              /\ env.features.long_lines = 0 => output.detection_counts.scratches = 0
              /\ env.features.cracks = 0 => output.detection_counts.cracks = 0
        /\ (FromLocal \/ YoloBranchReport) =>
              \A g \in 1..5 :
                  output.detection_counts[GroupKeys[g]] = DetailCount(g)

====
